---- MODULE Spec2Model ----
(***************************************************************************)
(* Mechanoreceptor: the combo engine (ComboSystem), the action buffer      *)
(* (InputBuffer), the mapping table (MappingConfigManager), the device     *)
(* sources and the InputMapper that reads them.                            *)
(*                                                                         *)
(* ComboSystem keeps a list of combo definitions and a Map from combo id   *)
(* to the sequence being matched.  checkCombos(input) walks the list once, *)
(* then sweeps the expired sequences.  The specifications are:             *)
(*   Spec     any interleaving of addCombo, removeCombo, checkCombos and   *)
(*            the passing of time, on a fresh ComboSystem;                 *)
(*   SpecObserved  the same, with the inputs passed to checkCombos kept in  *)
(*            `observed`;                                                  *)
(*   SpecRun  a fresh ComboSystem, one registration step, then a scripted  *)
(*            run of checkCombos calls (the steps of one definition, fed   *)
(*            in order) with time passing between the calls;               *)
(*   SpecBuffer   any interleaving of calls on one InputBuffer and the     *)
(*            passing of time;                                             *)
(*   SpecMapping  any interleaving of calls on one MappingConfigManager;   *)
(*   SpecMapper   a host that constructs an InputMapper, loads keyboard    *)
(*            mappings, registers a combo, switches contexts and calls     *)
(*            update() and mapInput() while keys go down and up;           *)
(*   SpecDevices  the same host with gamepad, mouse and touch mappings,    *)
(*            while gamepads connect and disconnect and touches start and  *)
(*            end;                                                         *)
(*   SpecKeyboard the same host with a KeyboardSource that is initialized  *)
(*            and disposed of in between.                                  *)
(***************************************************************************)
EXTENDS Integers, Sequences, FiniteSets

VARIABLES
    combos,           \* ComboSystem.combos: the registered definitions, in order
    activeSequences,  \* ComboSystem.activeSequences: id -> [inputs, startTime]
    now,              \* the value Date.now() returns
    triggered,        \* the list the last checkCombos call returned
    threw,            \* TRUE iff the last checkCombos call ended in a TypeError
    lastCall,         \* the last call made on the ComboSystem
    observed,         \* the last inputs passed to checkCombos, oldest first
                      \* (kept under SpecObserved and SpecRun)
    pc,               \* "free" (Spec), "observing" (SpecObserved);
                      \* SpecRun: "setup", "feeding" or "done"
    target,           \* SpecRun: the definition the script is about
    kind,             \* SpecRun: the shape of the script
    script,           \* SpecRun: the inputs still to be passed to checkCombos
    results,          \* SpecRun: one [time, triggered, threw] per call made
    buffer,           \* InputBuffer.buffer: [input, timestamp] entries, oldest first
    bufferSize,       \* InputBuffer.bufferSize
    bufferDuration,   \* InputBuffer.bufferDuration
    recentInputs,     \* the list the last getRecentInputs call returned
    bufferCall,       \* the last call made on the InputBuffer, with its arguments
    bufferBefore,     \* InputBuffer.buffer when that call was made
    bufferHung,       \* TRUE iff a call on the InputBuffer never returns
    mappings,         \* MappingConfigManager.mappings, in insertion order
    mappingCall,      \* the last call made on the MappingConfigManager
    mappingsBefore,   \* MappingConfigManager.mappings when that call was made
    mappingError,     \* the error that call threw, "none" if it returned
    contextMappings,  \* the list the last getMappingsForContext call returned
    pressedKeys,      \* KeyboardSource.pressedKeys
    isInitialized,    \* KeyboardSource.isInitialized
    keyListeners,     \* the event types window has a KeyboardSource listener for
    lastKeyEvent,     \* per key, the last event delivered since the listeners
                      \* were last registered, "stale" for a key that was down
                      \* when they were removed (kept under SpecKeyboard)
    tapped,           \* the keys pressed and released since the last mapInput
    refreshed,        \* TRUE iff update() was the last call or event
    mouseButtons,     \* MouseSource.buttons: the indices that hold true
    connectedGamepads,\* GamepadSource.connectedGamepads, in insertion order
    gamepads,         \* GamepadSource.gamepads: index -> the buttons pressed
    touches,          \* TouchSource.touches.length
    mapperBuilt,      \* TRUE iff an InputMapper has been constructed
    currentContext,   \* InputMapper.currentContext
    mapperCall        \* the last call made on the InputMapper and its outcome

vars == <<combos, activeSequences, now, triggered, threw, lastCall, observed,
          pc, target, kind, script, results,
          buffer, bufferSize, bufferDuration, recentInputs, bufferCall,
          bufferBefore, bufferHung,
          mappings, mappingCall, mappingsBefore, mappingError, contextMappings,
          pressedKeys, isInitialized, keyListeners, lastKeyEvent, tapped,
          refreshed, mouseButtons, connectedGamepads, gamepads, touches,
          mapperBuilt, currentContext, mapperCall>>

runVars == <<pc, target, kind, script, results>>

bufferVars == <<buffer, bufferSize, bufferDuration, recentInputs, bufferCall,
                bufferBefore, bufferHung>>

mappingVars == <<mappings, mappingCall, mappingsBefore, mappingError,
                 contextMappings>>

keyboardVars == <<pressedKeys, isInitialized, keyListeners, lastKeyEvent, tapped>>

deviceVars == <<keyboardVars, refreshed, mouseButtons, connectedGamepads,
                gamepads, touches>>

mapperVars == <<mapperBuilt, currentContext, mapperCall>>

----------------------------------------------------------------------------
(* Bounds *)

MaxCombos == 3
MaxTime == 3
RunMaxTime == 6
MaxCapacity == 2
MaxMappings == 3
MapperMaxCombos == 2

----------------------------------------------------------------------------
(* Inputs and definitions *)

KeyA == [inputType |-> "keyboard", inputCode |-> "KeyA"]
KeyB == [inputType |-> "keyboard", inputCode |-> "KeyB"]
MouseA == [inputType |-> "mouse", inputCode |-> "KeyA"]

Inputs == {KeyA, KeyB, MouseA}

\* What indexing an array past its end yields.
Undefined == [inputType |-> "undefined", inputCode |-> "undefined"]

ComboDefinition(id, sequence, maxTimeWindow) ==
    [id |-> id, sequence |-> sequence, maxTimeWindow |-> maxTimeWindow]

ComboIds == {"c1", "c2"}

\* The definitions addCombo is called with under Spec.
Catalogue ==
    { ComboDefinition("c1", <<KeyA, KeyB>>, 2),
      ComboDefinition("c1", <<KeyA, KeyA>>, 1),
      ComboDefinition("c2", <<KeyB>>, 1),
      ComboDefinition("c2", <<>>, 1),
      ComboDefinition("c2", <<KeyB, MouseA>>, 0) }

\* What the specification asks of a definition: a step, a positive window.
ValidDefinition(combo) ==
    Len(combo.sequence) >= 1 /\ combo.maxTimeWindow > 0

----------------------------------------------------------------------------
(* Map helpers *)

MapHas(m, k) == k \in DOMAIN m

MapSet(m, k, v) == [x \in DOMAIN m \cup {k} |-> IF x = k THEN v ELSE m[x]]

MapDelete(m, k) == [x \in DOMAIN m \ {k} |-> m[x]]

EmptyMap == [x \in {} |-> 0]

----------------------------------------------------------------------------
(* ComboSystem *)

\* expected.inputType === actual.inputType && expected.inputCode === actual.inputCode
\* (only evaluated on a defined `expected`; see Throws).
matchesInput(expected, actual) ==
    expected.inputType = actual.inputType /\ expected.inputCode = actual.inputCode

\* combo.sequence[n], zero-based as in the source.
SequenceAt(combo, n) ==
    IF n + 1 <= Len(combo.sequence) THEN combo.sequence[n + 1] ELSE Undefined

matchesFirstInput(combo, input) == matchesInput(SequenceAt(combo, 0), input)

\* Reading a property of undefined is a TypeError.
Throws(expected) == expected = Undefined

\* The window is never checked.
WithinWindowUnchecked(combo, startTime, currentTime) == TRUE

\* currentTime - startTime <= combo.maxTimeWindow
WithinWindow(combo, startTime, currentTime) ==
    currentTime - startTime <= combo.maxTimeWindow

\* One pass of the for-loop body over `combo`.
\* acc = [active, triggered, threw].
ComboStep(combo, input, currentTime, acc) ==
    IF ~MapHas(acc.active, combo.id)
    THEN IF Throws(SequenceAt(combo, 0))
         THEN [acc EXCEPT !.threw = TRUE]
         ELSE IF matchesFirstInput(combo, input)
              THEN [acc EXCEPT !.active =
                        MapSet(@, combo.id, [inputs |-> <<input>>, startTime |-> currentTime])]
              ELSE acc
    ELSE LET inputs == acc.active[combo.id].inputs
             startTime == acc.active[combo.id].startTime
             expectedInput == SequenceAt(combo, Len(inputs))
         IN  IF Throws(expectedInput)
             THEN [acc EXCEPT !.threw = TRUE]
             ELSE IF matchesInput(expectedInput, input)
                  THEN LET pushed == Append(inputs, input)
                       IN  IF Len(pushed) = Len(combo.sequence)
                           THEN [acc EXCEPT
                                   !.triggered =
                                       IF WithinWindow(combo, startTime, currentTime)
                                       THEN Append(@, combo.id) ELSE @,
                                   !.active = MapDelete(@, combo.id)]
                           ELSE [acc EXCEPT !.active =
                                     MapSet(@, combo.id, [inputs |-> pushed, startTime |-> startTime])]
                  ELSE [acc EXCEPT !.active = MapDelete(@, combo.id)]

\* for (const combo of this.combos) { ... }, left at the first TypeError.
RECURSIVE ComboLoop(_, _, _, _, _)
ComboLoop(cs, i, input, currentTime, acc) ==
    IF i > Len(cs) \/ acc.threw
    THEN acc
    ELSE ComboLoop(cs, i + 1, input, currentTime, ComboStep(cs[i], input, currentTime, acc))

\* this.combos.find(c => c.id === comboId): the index of the first such combo, 0 if none.
FindCombo(cs, comboId) ==
    IF \E i \in 1..Len(cs) : cs[i].id = comboId
    THEN CHOOSE i \in 1..Len(cs) :
            cs[i].id = comboId /\ \A j \in 1..(i - 1) : cs[j].id # comboId
    ELSE 0

\* "Clean up expired sequences".
CleanUp(active, cs, currentTime) ==
    LET expired(comboId) ==
            LET i == FindCombo(cs, comboId)
            IN  i # 0 /\ currentTime - active[comboId].startTime > cs[i].maxTimeWindow
    IN  [comboId \in {x \in DOMAIN active : ~expired(x)} |-> active[comboId]]

\* checkCombos(input) at time currentTime: [active, triggered, threw] on return.
checkCombos(cs, active, input, currentTime) ==
    LET acc == ComboLoop(cs, 1, input, currentTime,
                         [active |-> active, triggered |-> <<>>, threw |-> FALSE])
    IN  IF acc.threw
        THEN [acc EXCEPT !.triggered = <<>>]
        ELSE [acc EXCEPT !.active = CleanUp(acc.active, cs, currentTime)]

\* addCombo(combo): this.combos.push(combo)
addCombo(cs, combo) == Append(cs, combo)

\* removeCombo(comboId): this.combos.filter(combo => combo.id !== comboId)
removeCombo(cs, comboId) == SelectSeq(cs, LAMBDA combo : combo.id # comboId)

\* The length of the longest sequence addCombo is called with under Spec.
LongestSequence ==
    CHOOSE n \in {Len(c.sequence) : c \in Catalogue} :
        \A c \in Catalogue : Len(c.sequence) <= n

\* The last LongestSequence inputs observed.
Remember(obs, input) ==
    LET all == Append(obs, input)
    IN  IF Len(all) > LongestSequence
        THEN SubSeq(all, Len(all) - LongestSequence + 1, Len(all))
        ELSE all

\* The last call: its name and the combo id it was about ("" for checkCombos).
Call(op, comboId) == [op |-> op, comboId |-> comboId]

NoCall == Call("none", "")

\* The shapes of a script (SpecRun).
Exact == [name |-> "exact", at |-> 0, by |-> Undefined]
Twice == [name |-> "twice", at |-> 0, by |-> Undefined]
Subst(i, e) == [name |-> "subst", at |-> i, by |-> e]

----------------------------------------------------------------------------
(* InputBuffer *)

\* constructor(bufferSize: number = 10, bufferDuration: number = 100)
DefaultBufferSize == 10
DefaultBufferDuration == 100

\* The action ids pushed.
ActionIds == {"jump", "fire"}

TimestampedInput(input, timestamp) == [input |-> input, timestamp |-> timestamp]

\* The optional `duration` argument of getRecentInputs.
NoDuration == [given |-> FALSE, ms |-> 0]
Duration(ms) == [given |-> TRUE, ms |-> ms]

\* this.buffer.map(item => item.input)
InputsOf(buf) == [i \in 1..Len(buf) |-> buf[i].input]

\* this.buffer.shift() when the buffer is not empty
Shift(buf) == Tail(buf)

\* addInput never shifts.
addInputNoShift(buf, size, input, currentTime) ==
    Append(buf, TimestampedInput(input, currentTime))

\* addInput puts the entry in front.
addInputInFront(buf, size, input, currentTime) ==
    LET pushed == <<TimestampedInput(input, currentTime)>> \o buf
    IN  IF Len(pushed) > size THEN Shift(pushed) ELSE pushed

\* addInput(input): push, then one shift if the buffer is over its size.
addInput(buf, size, input, currentTime) ==
    LET pushed == Append(buf, TimestampedInput(input, currentTime))
    IN  IF Len(pushed) > size THEN Shift(pushed) ELSE pushed

\* getRecentInputs with the window defaulting to bufferDuration, as in an
\* earlier InputBuffer.
getRecentInputsDefaultDuration(buf, duration, currentTime, defaultDuration) ==
    LET ms == IF duration.given THEN duration.ms ELSE defaultDuration
    IN  InputsOf(SelectSeq(buf, LAMBDA item : currentTime - item.timestamp <= ms))

\* getRecentInputs(duration?); defaultDuration is this.bufferDuration, which
\* the method never reads.
getRecentInputs(buf, duration, currentTime, defaultDuration) ==
    IF ~duration.given
    THEN InputsOf(buf)
    ELSE InputsOf(SelectSeq(buf, LAMBDA item : currentTime - item.timestamp <= duration.ms))

\* while (this.buffer.length > this.bufferSize) this.buffer.shift();
\* shift() on an empty array removes nothing.
RECURSIVE ShiftWhileOver(_, _)
ShiftWhileOver(buf, size) ==
    IF Len(buf) > size /\ buf # <<>> THEN ShiftWhileOver(Shift(buf), size) ELSE buf

\* setBufferSize drops the newest entries.
setBufferSizeDropNewest(buf, size) ==
    [buffer |-> IF size >= 0 /\ Len(buf) > size THEN SubSeq(buf, 1, size) ELSE buf,
     hung |-> FALSE]

\* setBufferSize(size): the buffer it leaves, and whether the loop spins for
\* ever (the condition still holds on an empty buffer).
setBufferSize(buf, size) ==
    LET left == ShiftWhileOver(buf, size)
    IN  [buffer |-> left, hung |-> Len(left) > size]

\* InputMapper.getRecentInputs without its argument, as in an earlier InputMapper.
InputMapperGetRecentInputsNoArgument(buf, duration, currentTime, defaultDuration) ==
    getRecentInputs(buf, NoDuration, currentTime, defaultDuration)

\* InputMapper.getRecentInputs(duration): this.inputBuffer.getRecentInputs(duration)
InputMapperGetRecentInputs(buf, duration, currentTime, defaultDuration) ==
    getRecentInputs(buf, duration, currentTime, defaultDuration)

BufferCall(op, input, duration, size, time) ==
    [op |-> op, input |-> input, duration |-> duration, size |-> size, time |-> time]

NoBufferCall == BufferCall("none", "", NoDuration, 0, 0)

\* new InputBuffer(): an InputBuffer no call is made on.
BufferInit ==
    /\ buffer = <<>>
    /\ bufferSize = DefaultBufferSize
    /\ bufferDuration = DefaultBufferDuration
    /\ recentInputs = <<>>
    /\ bufferCall = NoBufferCall
    /\ bufferBefore = <<>>
    /\ bufferHung = FALSE

----------------------------------------------------------------------------
(* MappingConfigManager *)

\* JavaScript values as the validation sees them: typeof, Array.isArray and
\* the value itself.  A key that is absent reads as undefined.
Str(s) == [type |-> "string", value |-> s]
Num(n) == [type |-> "number", value |-> n]
UndefinedValue == [type |-> "undefined", value |-> ""]
NullValue == [type |-> "null", value |-> ""]
ArrayValue == [type |-> "array", value |-> ""]

InputMapping(contextId, actionId, inputType, inputCode, modifiers) ==
    [null |-> FALSE, contextId |-> contextId, actionId |-> actionId,
     inputType |-> inputType, inputCode |-> inputCode, modifiers |-> modifiers]

\* null where an InputMapping is expected.
NullMapping ==
    [null |-> TRUE, contextId |-> UndefinedValue, actionId |-> UndefinedValue,
     inputType |-> UndefinedValue, inputCode |-> UndefinedValue,
     modifiers |-> UndefinedValue]

JumpSpace == InputMapping(Str("default"), Str("jump"), Str("keyboard"), Str("Space"), UndefinedValue)
FireButton == InputMapping(Str("default"), Str("fire"), Str("mouse"), Num("0"), ArrayValue)
MenuJump == InputMapping(Str("menu"), Str("jump"), Str("keyboard"), Str("Enter"), UndefinedValue)
JumpPad == InputMapping(Str("default"), Str("jump"), Str("gamepad"), Num("0"), UndefinedValue)
EmptyContext == InputMapping(Str(""), Str("jump"), Str("keyboard"), Str("Space"), UndefinedValue)
EmptyAction == InputMapping(Str("default"), Str(""), Str("touch"), Num("0"), UndefinedValue)
NumberContext == InputMapping(Num("0"), Str("jump"), Str("keyboard"), Str("Space"), UndefinedValue)
NoAction == InputMapping(Str("default"), UndefinedValue, Str("keyboard"), Str("Space"), UndefinedValue)
Joystick == InputMapping(Str("default"), Str("jump"), Str("joystick"), Str("Space"), UndefinedValue)
NullCode == InputMapping(Str("default"), Str("jump"), Str("keyboard"), NullValue, UndefinedValue)
StringModifiers == InputMapping(Str("default"), Str("jump"), Str("keyboard"), Str("Space"), Str("ctrl"))

\* The objects passed to addMapping.
Bindings ==
    {JumpSpace, FireButton, MenuJump, JumpPad, EmptyContext, EmptyAction,
     NumberContext, NoAction, Joystick, NullCode, StringModifiers, NullMapping}

\* The context and action ids passed to getMappingsForContext and removeMapping.
ContextIds == {"default", "menu", "", "pause"}
MappingActionIds == {"jump", "fire", ""}

\* The texts passed to loadMappings, by what JSON.parse makes of them: a
\* SyntaxError, a value that is not an array, or an array of items.
NotJson == [wellFormed |-> FALSE, isArray |-> FALSE, items |-> <<>>]
JsonObject == [wellFormed |-> TRUE, isArray |-> FALSE, items |-> <<>>]
JsonArray(items) == [wellFormed |-> TRUE, isArray |-> TRUE, items |-> items]

Documents ==
    {NotJson, JsonObject, JsonArray(<<>>),
     JsonArray(<<JumpSpace>>), JsonArray(<<MenuJump, FireButton>>),
     JsonArray(<<JumpSpace, MenuJump, JumpPad>>),
     JsonArray(<<FireButton, MenuJump, FireButton>>),
     JsonArray(<<EmptyContext>>), JsonArray(<<JumpSpace, EmptyAction>>),
     JsonArray(<<JumpSpace, Joystick>>), JsonArray(<<NullCode, JumpSpace>>),
     JsonArray(<<FireButton, NumberContext, MenuJump>>),
     JsonArray(<<NoAction>>), JsonArray(<<StringModifiers, FireButton>>),
     JsonArray(<<JumpSpace, NullMapping>>), JsonArray(<<Joystick, NullMapping>>)}

InputTypes == {"keyboard", "mouse", "gamepad", "touch"}

\* The test validateMappings applies to one item that is not null.
ValidMapping(mapping) ==
    /\ mapping.contextId.type = "string"
    /\ mapping.actionId.type = "string"
    /\ mapping.inputType.type = "string" /\ mapping.inputType.value \in InputTypes
    /\ mapping.inputCode.type \in {"string", "number"}
    /\ mapping.modifiers.type \in {"undefined", "array"}

\* validateMappings(items): every() stops at the first item that fails;
\* reading a property of null throws a TypeError.
RECURSIVE validateMappings(_)
validateMappings(items) ==
    IF items = <<>> THEN "true"
    ELSE IF Head(items).null THEN "TypeError"
    ELSE IF ~ValidMapping(Head(items)) THEN "false"
    ELSE validateMappings(Tail(items))

NoError == "none"
InvalidFormat == "Error: Invalid mapping format"

\* loadMappings(mappingsJson): the table it leaves and the error it throws.
loadMappings(table, document) ==
    IF ~document.wellFormed THEN [mappings |-> table, error |-> "SyntaxError"]
    ELSE IF ~document.isArray THEN [mappings |-> table, error |-> InvalidFormat]
    ELSE LET verdict == validateMappings(document.items)
         IN  IF verdict = "true" THEN [mappings |-> document.items, error |-> NoError]
             ELSE IF verdict = "TypeError" THEN [mappings |-> table, error |-> "TypeError"]
             ELSE [mappings |-> table, error |-> InvalidFormat]

\* addMapping(mapping)
addMapping(table, mapping) ==
    LET verdict == validateMappings(<<mapping>>)
    IN  IF verdict = "true" THEN [mappings |-> Append(table, mapping), error |-> NoError]
        ELSE IF verdict = "TypeError" THEN [mappings |-> table, error |-> "TypeError"]
        ELSE [mappings |-> table, error |-> InvalidFormat]

\* removeMapping that looks at the action id only.
removeMappingByAction(table, actionId, contextId) ==
    SelectSeq(table, LAMBDA mapping : ~(mapping.actionId = Str(actionId)))

\* removeMapping(actionId, contextId)
removeMapping(table, actionId, contextId) ==
    SelectSeq(table, LAMBDA mapping :
        ~(mapping.actionId = Str(actionId) /\ mapping.contextId = Str(contextId)))

\* getMappingsForContext that returns every mapping.
getMappingsForAnyContext(table, contextId) == table

\* getMappingsForContext(contextId)
getMappingsForContext(table, contextId) ==
    SelectSeq(table, LAMBDA mapping : mapping.contextId = Str(contextId))

MappingCall(op, document, mapping, actionId, contextId) ==
    [op |-> op, document |-> document, mapping |-> mapping,
     actionId |-> actionId, contextId |-> contextId]

NoMappingCall == MappingCall("none", NotJson, NullMapping, "", "")

\* new MappingConfigManager(): mappings = []
MappingInit ==
    /\ mappings = <<>>
    /\ mappingCall = NoMappingCall
    /\ mappingsBefore = <<>>
    /\ mappingError = NoError
    /\ contextMappings = <<>>

----------------------------------------------------------------------------
(* Device sources *)

\* The key codes of the keyboard events, the mouse and gamepad button
\* indices (as property keys) and the gamepad indices.
Keys == {"KeyA", "KeyB"}
Buttons == {"0"}
GamepadIndices == {0, 1}

\* KeyboardSource.handleKeyDown: this.pressedKeys.add(event.code); onKeyDown
\* is null unless the host sets it.
handleKeyDown(pressed, code) == pressed \cup {code}

\* handleKeyUp that forgets every key.
handleKeyUpAll(pressed, code) == {}

\* KeyboardSource.handleKeyUp: this.pressedKeys.delete(event.code)
handleKeyUp(pressed, code) == pressed \ {code}

\* KeyboardSource.isKeyPressed(keyCode): this.pressedKeys.has(keyCode)
isKeyPressed(pressed, keyCode) == keyCode \in pressed

\* MouseSource.isButtonPressed(button): this.buttons[button] || false
isMouseButtonPressed(buttons, button) == button \in buttons

\* GamepadSource.handleGamepadConnected: this.connectedGamepads.add(index)
handleGamepadConnected(connected, index) ==
    IF \E i \in 1..Len(connected) : connected[i] = index
    THEN connected ELSE Append(connected, index)

\* GamepadSource.handleGamepadDisconnected: the two delete calls.
handleGamepadDisconnected(connected, pads, index) ==
    [connected |-> SelectSeq(connected, LAMBDA i : i # index),
     gamepads |-> [i \in DOMAIN pads \ {index} |-> pads[i]]]

\* GamepadSource.pollGamepads with navigator.getGamepads() = hardware:
\* updateGamepadState for every gamepad that is in connectedGamepads.
pollGamepads(connected, pads, hardware) ==
    LET polled == {i \in DOMAIN hardware : \E j \in 1..Len(connected) : connected[j] = i}
    IN  [i \in DOMAIN pads \cup polled |-> IF i \in polled THEN hardware[i] ELSE pads[i]]

\* getConnectedGamepads()[0] when no gamepad is connected.
NoGamepad == -1

\* GamepadSource.getConnectedGamepads()[0]
FirstGamepad(connected) == IF connected = <<>> THEN NoGamepad ELSE connected[1]

\* GamepadSource.isButtonPressed(gamepadIndex, buttonIndex)
isGamepadButtonPressed(pads, gamepadIndex, buttonIndex) ==
    IF gamepadIndex \in DOMAIN pads THEN buttonIndex \in pads[gamepadIndex] ELSE FALSE

\* TouchSource.isTouching(): this.touches.length > 0
isTouching(count) == count > 0

\* The state of the four sources as mapInput reads it.
Devices(keys, buttons, connected, pads, count) ==
    [pressedKeys |-> keys, mouseButtons |-> buttons,
     connectedGamepads |-> connected, gamepads |-> pads, touches |-> count]

\* new KeyboardSource(), new MouseSource(), new GamepadSource(), new TouchSource()
DeviceInit ==
    /\ pressedKeys = {}
    /\ isInitialized = FALSE
    /\ keyListeners = {}
    /\ lastKeyEvent = [k \in Keys |-> "none"]
    /\ tapped = {}
    /\ refreshed = FALSE
    /\ mouseButtons = {}
    /\ connectedGamepads = <<>>
    /\ gamepads = EmptyMap
    /\ touches = 0

----------------------------------------------------------------------------
(* InputMapper *)

\* The collaborators the constructor is given.
Collaborators ==
    {"mappingManager", "keyboardSource", "mouseSource", "gamepadSource", "touchSource"}

\* The constructor that only asks for the mapping manager, as in an earlier
\* InputMapper.
ConstructorThrowsWithoutManager(given) == "mappingManager" \notin given

\* constructor(...): throws unless all five collaborators are given.
ConstructorThrows(given) == \E c \in Collaborators : c \notin given

ConstructorError == "Error: All input sources and mapping manager must be provided"

\* An inputCode as a property key and as a ComboInput code.  The codes used
\* here keep numbers and strings apart: no string is made of digits.
CodeOf(value) == value.value

\* { inputType: mapping.inputType, inputCode: mapping.inputCode }
ComboInputOf(mapping) ==
    [inputType |-> mapping.inputType.value, inputCode |-> CodeOf(mapping.inputCode)]

\* getInputState without the touch case, as in an earlier isInputActive.
getInputStateNoTouch(mapping, dev) ==
    CASE mapping.inputType.value = "keyboard" ->
            isKeyPressed(dev.pressedKeys, CodeOf(mapping.inputCode))
      [] mapping.inputType.value = "mouse" ->
            isMouseButtonPressed(dev.mouseButtons, CodeOf(mapping.inputCode))
      [] mapping.inputType.value = "gamepad" ->
            isGamepadButtonPressed(dev.gamepads, FirstGamepad(dev.connectedGamepads),
                                   CodeOf(mapping.inputCode))
      [] OTHER -> FALSE

\* getInputState that asks every connected gamepad.
getInputStateAnyGamepad(mapping, dev) ==
    CASE mapping.inputType.value = "keyboard" ->
            isKeyPressed(dev.pressedKeys, CodeOf(mapping.inputCode))
      [] mapping.inputType.value = "mouse" ->
            isMouseButtonPressed(dev.mouseButtons, CodeOf(mapping.inputCode))
      [] mapping.inputType.value = "gamepad" ->
            \E i \in 1..Len(dev.connectedGamepads) :
                isGamepadButtonPressed(dev.gamepads, dev.connectedGamepads[i],
                                       CodeOf(mapping.inputCode))
      [] mapping.inputType.value = "touch" -> isTouching(dev.touches)
      [] OTHER -> FALSE

\* getInputState(mapping), which isInputActive returns.
getInputState(mapping, dev) ==
    CASE mapping.inputType.value = "keyboard" ->
            isKeyPressed(dev.pressedKeys, CodeOf(mapping.inputCode))
      [] mapping.inputType.value = "mouse" ->
            isMouseButtonPressed(dev.mouseButtons, CodeOf(mapping.inputCode))
      [] mapping.inputType.value = "gamepad" ->
            isGamepadButtonPressed(dev.gamepads, FirstGamepad(dev.connectedGamepads),
                                   CodeOf(mapping.inputCode))
      [] mapping.inputType.value = "touch" -> isTouching(dev.touches)
      [] OTHER -> FALSE

\* The triggered combos are not added to the buffer.
AddInputsSkipped(buf, size, ids, currentTime) == buf

\* triggeredCombos.forEach(combo => this.inputBuffer.addInput(combo))
RECURSIVE AddInputs(_, _, _, _)
AddInputs(buf, size, ids, currentTime) ==
    IF ids = <<>> THEN buf
    ELSE AddInputs(addInput(buf, size, Head(ids), currentTime), size, Tail(ids), currentTime)

\* The body of mapInput's loop for one mapping.
\* acc = [actions, buffer, active, threw, offered].
MapStep(mapping, dev, cs, size, currentTime, acc) ==
    IF ~getInputState(mapping, dev) THEN acc
    ELSE LET comboInput == ComboInputOf(mapping)
             pushed == addInput(acc.buffer, size, mapping.actionId.value, currentTime)
             r == checkCombos(cs, acc.active, comboInput, currentTime)
         IN  [actions |-> Append(acc.actions, mapping.actionId.value) \o r.triggered,
              buffer |-> AddInputs(pushed, size, r.triggered, currentTime),
              active |-> r.active,
              threw |-> r.threw,
              offered |-> Append(acc.offered, comboInput)]

\* for (const mapping of mappings) { ... }, left when checkCombos throws.
RECURSIVE MapLoop(_, _, _, _, _, _)
MapLoop(ms, dev, cs, size, currentTime, acc) ==
    IF ms = <<>> \/ acc.threw THEN acc
    ELSE MapLoop(Tail(ms), dev, cs, size, currentTime,
                 MapStep(Head(ms), dev, cs, size, currentTime, acc))

\* mapInput over every mapping of the table, whatever its context.
mapInputAnyContext(table, context, dev, cs, active, buf, size, currentTime) ==
    MapLoop(table, dev, cs, size, currentTime,
            [actions |-> <<>>, buffer |-> buf, active |-> active,
             threw |-> FALSE, offered |-> <<>>])

\* mapInput(): [actions, buffer, active, threw, offered] when it ends.
mapInput(table, context, dev, cs, active, buf, size, currentTime) ==
    MapLoop(getMappingsForContext(table, context), dev, cs, size, currentTime,
            [actions |-> <<>>, buffer |-> buf, active |-> active,
             threw |-> FALSE, offered |-> <<>>])

\* setContext that keeps the default context.
setContextIgnored(contextId) == "default"

\* setContext(contextId): the value of this.currentContext afterwards.
setContext(contextId) == contextId

\* A call on the InputMapper: the context it ran in, the collaborators given
\* (constructor), the actions gathered, the error thrown, the inputs passed
\* to checkCombos and the buffer before the call.
MapperCall(op, context, given, actions, error, offered, before) ==
    [op |-> op, context |-> context, given |-> given, actions |-> actions,
     error |-> error, offered |-> offered, before |-> before]

NoMapperCall == MapperCall("none", "", {}, <<>>, NoError, <<>>, <<>>)

\* No InputMapper yet; currentContext = "default" once there is one.
MapperInit ==
    /\ mapperBuilt = FALSE
    /\ currentContext = "default"
    /\ mapperCall = NoMapperCall

----------------------------------------------------------------------------
(* Spec: any interleaving of calls *)

Init ==
    /\ combos = <<>>
    /\ activeSequences = EmptyMap
    /\ now = 0
    /\ triggered = <<>>
    /\ threw = FALSE
    /\ lastCall = NoCall
    /\ observed = <<>>
    /\ pc = "free"
    /\ target = ComboDefinition("c1", <<>>, 0)
    /\ kind = Exact
    /\ script = <<>>
    /\ results = <<>>
    /\ BufferInit
    /\ MappingInit
    /\ DeviceInit
    /\ MapperInit

\* Spec and SpecObserved: any call may come next.
AnyCall == pc \in {"free", "observing"}

AddCombo(combo) ==
    /\ AnyCall
    /\ Len(combos) < MaxCombos
    /\ combos' = addCombo(combos, combo)
    /\ lastCall' = Call("addCombo", combo.id)
    /\ UNCHANGED <<activeSequences, now, triggered, threw, observed>>
    /\ UNCHANGED runVars
    /\ UNCHANGED <<bufferVars, mappingVars, deviceVars, mapperVars>>

RemoveCombo(comboId) ==
    /\ AnyCall
    /\ combos' = removeCombo(combos, comboId)
    /\ lastCall' = Call("removeCombo", comboId)
    /\ UNCHANGED <<activeSequences, now, triggered, threw, observed>>
    /\ UNCHANGED runVars
    /\ UNCHANGED <<bufferVars, mappingVars, deviceVars, mapperVars>>

\* A call of checkCombos(input) when Date.now() returns `now`.
CheckCombosCall(input) ==
    /\ LET r == checkCombos(combos, activeSequences, input, now)
       IN  /\ activeSequences' = r.active
           /\ triggered' = r.triggered
           /\ threw' = r.threw
    /\ lastCall' = Call("checkCombos", "")
    /\ observed' = IF pc = "free" THEN observed ELSE Remember(observed, input)
    /\ UNCHANGED <<combos, now>>

CheckCombos(input) ==
    /\ AnyCall
    /\ CheckCombosCall(input)
    /\ UNCHANGED runVars
    /\ UNCHANGED <<bufferVars, mappingVars, deviceVars, mapperVars>>

Tick ==
    /\ AnyCall
    /\ now < MaxTime
    /\ now' = now + 1
    /\ UNCHANGED <<combos, activeSequences, triggered, threw, lastCall, observed>>
    /\ UNCHANGED runVars
    /\ UNCHANGED <<bufferVars, mappingVars, deviceVars, mapperVars>>

Next ==
    \/ \E combo \in Catalogue : AddCombo(combo)
    \/ \E comboId \in ComboIds : RemoveCombo(comboId)
    \/ \E input \in Inputs : CheckCombos(input)
    \/ Tick

Spec == Init /\ [][Next]_vars

InitObserved ==
    /\ combos = <<>>
    /\ activeSequences = EmptyMap
    /\ now = 0
    /\ triggered = <<>>
    /\ threw = FALSE
    /\ lastCall = NoCall
    /\ observed = <<>>
    /\ pc = "observing"
    /\ target = ComboDefinition("c1", <<>>, 0)
    /\ kind = Exact
    /\ script = <<>>
    /\ results = <<>>
    /\ BufferInit
    /\ MappingInit
    /\ DeviceInit
    /\ MapperInit

SpecObserved == InitObserved /\ [][Next]_vars

----------------------------------------------------------------------------
(* SpecRun: a scripted run of checkCombos calls on a fresh ComboSystem *)

\* The definitions a run is about.
RunDefs ==
    { ComboDefinition("c1", <<KeyA, KeyB, KeyA>>, 5),
      ComboDefinition("c1", <<KeyA, KeyB>>, 2),
      ComboDefinition("c2", <<KeyA, KeyB, MouseA>>, 5),
      ComboDefinition("c2", <<KeyB>>, 1) }

\* The scripts about D: its steps; its steps twice; its steps with step i
\* replaced by another input, then its steps.
Kinds(D) ==
    {Exact, Twice} \cup
    { Subst(i, e) : <<i, e>> \in
        { x \in (1..Len(D.sequence)) \X Inputs : x[2] # D.sequence[x[1]] } }

ScriptOf(D, k) ==
    CASE k.name = "exact" -> D.sequence
      [] k.name = "twice" -> D.sequence \o D.sequence
      [] k.name = "subst" -> [D.sequence EXCEPT ![k.at] = k.by] \o D.sequence

\* The registrations a run starts with: D alone, or D with one definition of
\* another id before or after it.
Registrations(D) ==
    {<<D>>} \cup
    UNION { {<<D, E>>, <<E, D>>} : E \in {X \in RunDefs : X.id # D.id} }

RECURSIVE AddAll(_, _)
AddAll(cs, defs) ==
    IF defs = <<>> THEN cs ELSE AddAll(addCombo(cs, Head(defs)), Tail(defs))

InitRun ==
    /\ combos = <<>>
    /\ activeSequences = EmptyMap
    /\ now = 0
    /\ triggered = <<>>
    /\ threw = FALSE
    /\ lastCall = NoCall
    /\ observed = <<>>
    /\ pc = "setup"
    /\ target = ComboDefinition("c1", <<>>, 0)
    /\ kind = Exact
    /\ script = <<>>
    /\ results = <<>>
    /\ BufferInit
    /\ MappingInit
    /\ DeviceInit
    /\ MapperInit

Setup ==
    /\ pc = "setup"
    /\ \E D \in RunDefs :
         /\ target' = D
         /\ \E k \in Kinds(D) : kind' = k /\ script' = ScriptOf(D, k)
         /\ \E defs \in Registrations(D) :
               /\ combos' = AddAll(combos, defs)
               /\ lastCall' = Call("addCombo", defs[Len(defs)].id)
    /\ pc' = "feeding"
    /\ UNCHANGED <<activeSequences, now, triggered, threw, observed, results>>
    /\ UNCHANGED <<bufferVars, mappingVars, deviceVars, mapperVars>>

Feed ==
    /\ pc = "feeding"
    /\ script # <<>>
    /\ CheckCombosCall(Head(script))
    /\ results' = Append(results,
                         [time |-> now, triggered |-> triggered', threw |-> threw'])
    /\ script' = Tail(script)
    /\ pc' = IF Tail(script) = <<>> THEN "done" ELSE "feeding"
    /\ UNCHANGED <<target, kind>>
    /\ UNCHANGED <<bufferVars, mappingVars, deviceVars, mapperVars>>

RunTick ==
    /\ pc = "feeding"
    /\ now < RunMaxTime
    /\ now' = now + 1
    /\ UNCHANGED <<combos, activeSequences, triggered, threw, lastCall, observed>>
    /\ UNCHANGED runVars
    /\ UNCHANGED <<bufferVars, mappingVars, deviceVars, mapperVars>>

NextRun == Setup \/ Feed \/ RunTick

SpecRun == InitRun /\ [][NextRun]_vars

----------------------------------------------------------------------------
(* SpecBuffer: any interleaving of calls on one InputBuffer *)

\* The sizes and durations the constructor and the setters are called with,
\* and the windows getRecentInputs is called with.
Capacities == (-1)..MaxCapacity
BufferDurations == {0, MaxTime}
Durations == 0..MaxTime

\* new InputBuffer(bufferSize, bufferDuration); the ComboSystem is not used.
InitBuffer ==
    /\ combos = <<>>
    /\ activeSequences = EmptyMap
    /\ now = 0
    /\ triggered = <<>>
    /\ threw = FALSE
    /\ lastCall = NoCall
    /\ observed = <<>>
    /\ pc = "buffer"
    /\ target = ComboDefinition("c1", <<>>, 0)
    /\ kind = Exact
    /\ script = <<>>
    /\ results = <<>>
    /\ buffer = <<>>
    /\ bufferSize \in Capacities
    /\ bufferDuration \in BufferDurations
    /\ recentInputs = <<>>
    /\ bufferCall = NoBufferCall
    /\ bufferBefore = <<>>
    /\ bufferHung = FALSE
    /\ MappingInit
    /\ DeviceInit
    /\ MapperInit

\* A call can be made on the InputBuffer: the previous one returned.
BufferReady == pc = "buffer" /\ ~bufferHung

comboVars == <<combos, activeSequences, triggered, threw, lastCall, observed>>

AddInput(input) ==
    /\ BufferReady
    /\ buffer' = addInput(buffer, bufferSize, input, now)
    /\ bufferCall' = BufferCall("addInput", input, NoDuration, bufferSize, now)
    /\ bufferBefore' = buffer
    /\ UNCHANGED <<bufferSize, bufferDuration, recentInputs, bufferHung>>
    /\ UNCHANGED <<comboVars, now, runVars, mappingVars, deviceVars, mapperVars>>

GetRecentInputs(duration) ==
    /\ BufferReady
    /\ recentInputs' = getRecentInputs(buffer, duration, now, bufferDuration)
    /\ bufferCall' = BufferCall("getRecentInputs", "", duration, bufferSize, now)
    /\ bufferBefore' = buffer
    /\ UNCHANGED <<buffer, bufferSize, bufferDuration, bufferHung>>
    /\ UNCHANGED <<comboVars, now, runVars, mappingVars, deviceVars, mapperVars>>

InputMapperGetRecentInputsCall(duration) ==
    /\ BufferReady
    /\ recentInputs' = InputMapperGetRecentInputs(buffer, duration, now, bufferDuration)
    /\ bufferCall' = BufferCall("InputMapper.getRecentInputs", "", duration, bufferSize, now)
    /\ bufferBefore' = buffer
    /\ UNCHANGED <<buffer, bufferSize, bufferDuration, bufferHung>>
    /\ UNCHANGED <<comboVars, now, runVars, mappingVars, deviceVars, mapperVars>>

\* clear(): this.buffer = []
Clear ==
    /\ BufferReady
    /\ buffer' = <<>>
    /\ bufferCall' = BufferCall("clear", "", NoDuration, bufferSize, now)
    /\ bufferBefore' = buffer
    /\ UNCHANGED <<bufferSize, bufferDuration, recentInputs, bufferHung>>
    /\ UNCHANGED <<comboVars, now, runVars, mappingVars, deviceVars, mapperVars>>

SetBufferSize(size) ==
    /\ BufferReady
    /\ bufferSize' = size
    /\ LET r == setBufferSize(buffer, size)
       IN  buffer' = r.buffer /\ bufferHung' = r.hung
    /\ bufferCall' = BufferCall("setBufferSize", "", NoDuration, size, now)
    /\ bufferBefore' = buffer
    /\ UNCHANGED <<bufferDuration, recentInputs>>
    /\ UNCHANGED <<comboVars, now, runVars, mappingVars, deviceVars, mapperVars>>

\* setBufferDuration(duration): this.bufferDuration = duration
SetBufferDuration(duration) ==
    /\ BufferReady
    /\ bufferDuration' = duration
    /\ bufferCall' = BufferCall("setBufferDuration", "", Duration(duration), bufferSize, now)
    /\ bufferBefore' = buffer
    /\ UNCHANGED <<buffer, bufferSize, recentInputs, bufferHung>>
    /\ UNCHANGED <<comboVars, now, runVars, mappingVars, deviceVars, mapperVars>>

BufferTick ==
    /\ pc = "buffer"
    /\ now < MaxTime
    /\ now' = now + 1
    /\ UNCHANGED <<comboVars, runVars, bufferVars, mappingVars, deviceVars, mapperVars>>

Windows == {NoDuration} \cup {Duration(ms) : ms \in Durations}

NextBuffer ==
    \/ \E input \in ActionIds : AddInput(input)
    \/ \E duration \in Windows : GetRecentInputs(duration)
    \/ \E duration \in Windows : InputMapperGetRecentInputsCall(duration)
    \/ Clear
    \/ \E size \in Capacities : SetBufferSize(size)
    \/ \E duration \in BufferDurations : SetBufferDuration(duration)
    \/ BufferTick

SpecBuffer == InitBuffer /\ [][NextBuffer]_vars

----------------------------------------------------------------------------
(* SpecMapping: any interleaving of calls on one MappingConfigManager *)

InitMapping ==
    /\ combos = <<>>
    /\ activeSequences = EmptyMap
    /\ now = 0
    /\ triggered = <<>>
    /\ threw = FALSE
    /\ lastCall = NoCall
    /\ observed = <<>>
    /\ pc = "mapping"
    /\ target = ComboDefinition("c1", <<>>, 0)
    /\ kind = Exact
    /\ script = <<>>
    /\ results = <<>>
    /\ BufferInit
    /\ MappingInit
    /\ DeviceInit
    /\ MapperInit

otherVars == <<comboVars, now, runVars, bufferVars, deviceVars, mapperVars>>

LoadMappings(document) ==
    /\ pc = "mapping"
    /\ LET r == loadMappings(mappings, document)
       IN  mappings' = r.mappings /\ mappingError' = r.error
    /\ mappingCall' = MappingCall("loadMappings", document, NullMapping, "", "")
    /\ mappingsBefore' = mappings
    /\ contextMappings' = <<>>
    /\ UNCHANGED otherVars

AddMapping(mapping) ==
    /\ pc = "mapping"
    /\ Len(mappings) < MaxMappings
    /\ LET r == addMapping(mappings, mapping)
       IN  mappings' = r.mappings /\ mappingError' = r.error
    /\ mappingCall' = MappingCall("addMapping", NotJson, mapping, "", "")
    /\ mappingsBefore' = mappings
    /\ contextMappings' = <<>>
    /\ UNCHANGED otherVars

RemoveMapping(actionId, contextId) ==
    /\ pc = "mapping"
    /\ mappings' = removeMapping(mappings, actionId, contextId)
    /\ mappingError' = NoError
    /\ mappingCall' = MappingCall("removeMapping", NotJson, NullMapping, actionId, contextId)
    /\ mappingsBefore' = mappings
    /\ contextMappings' = <<>>
    /\ UNCHANGED otherVars

GetMappingsForContext(contextId) ==
    /\ pc = "mapping"
    /\ contextMappings' = getMappingsForContext(mappings, contextId)
    /\ mappingError' = NoError
    /\ mappingCall' = MappingCall("getMappingsForContext", NotJson, NullMapping, "", contextId)
    /\ mappingsBefore' = mappings
    /\ UNCHANGED mappings
    /\ UNCHANGED otherVars

NextMapping ==
    \/ \E document \in Documents : LoadMappings(document)
    \/ \E mapping \in Bindings : AddMapping(mapping)
    \/ \E actionId \in MappingActionIds, contextId \in ContextIds :
          RemoveMapping(actionId, contextId)
    \/ \E contextId \in ContextIds : GetMappingsForContext(contextId)

SpecMapping == InitMapping /\ [][NextMapping]_vars

----------------------------------------------------------------------------
(* SpecMapper: a host that builds an InputMapper, configures it and calls it
   while the devices change *)

\* The mappings the host loads.
JumpKeyA == InputMapping(Str("default"), Str("jump"), Str("keyboard"), Str("KeyA"), UndefinedValue)
FireKeyB == InputMapping(Str("default"), Str("fire"), Str("keyboard"), Str("KeyB"), UndefinedValue)
MenuFireKeyA == InputMapping(Str("menu"), Str("fire"), Str("keyboard"), Str("KeyA"), UndefinedValue)
MenuJumpKeyB == InputMapping(Str("menu"), Str("jump"), Str("keyboard"), Str("KeyB"), UndefinedValue)
JumpGamepad == InputMapping(Str("default"), Str("jump"), Str("gamepad"), Num("0"), UndefinedValue)
FireTouch == InputMapping(Str("default"), Str("fire"), Str("touch"), Num("0"), UndefinedValue)
JumpTouchAny == InputMapping(Str("default"), Str("jump"), Str("touch"), Str("any"), UndefinedValue)
MenuJumpMouse == InputMapping(Str("menu"), Str("jump"), Str("mouse"), Num("0"), UndefinedValue)

KeyboardMappings == <<JumpKeyA, MenuFireKeyA, FireKeyB, JumpKeyA>>
\* KeyA before KeyB in "default", KeyB before KeyA in "menu".
OrderedMappings == <<JumpKeyA, FireKeyB, MenuJumpKeyB, MenuFireKeyA>>
DeviceMappings == <<JumpGamepad, MenuJumpMouse, FireTouch, JumpTouchAny>>

\* The texts the host loads: keyboard mappings under SpecMapper and
\* SpecKeyboard, gamepad, mouse and touch mappings under SpecDevices.
MapperDocuments ==
    CASE pc = "devices" -> {JsonArray(DeviceMappings)}
      [] pc = "mapper" -> {JsonArray(KeyboardMappings), JsonArray(OrderedMappings)}
      [] OTHER -> {JsonArray(KeyboardMappings), JsonArray(<<FireKeyB, MenuFireKeyA>>)}

\* The contexts the host switches between; no mapping is of "pause".
MapperContexts == {"default", "menu", "pause"}

\* The definitions the host registers.
MapperCombos ==
    {ComboDefinition("c1", <<KeyA, KeyB>>, 2), ComboDefinition("c2", <<KeyB>>, 1)}

\* The bufferSize the host passes to the constructor: no room, or room for
\* two of the ids a call returns.
MapperCapacities == {0, 2}

InitMapper ==
    /\ combos = <<>>
    /\ activeSequences = EmptyMap
    /\ now = 0
    /\ triggered = <<>>
    /\ threw = FALSE
    /\ lastCall = NoCall
    /\ observed = <<>>
    /\ pc = "mapper"
    /\ target = ComboDefinition("c1", <<>>, 0)
    /\ kind = Exact
    /\ script = <<>>
    /\ results = <<>>
    /\ BufferInit
    /\ MappingInit
    /\ DeviceInit
    /\ MapperInit

\* The host is that of SpecMapper, SpecDevices or SpecKeyboard.
MapperHost == pc \in {"mapper", "devices", "keyboard"}

\* The hosts that listen to the keyboard.
KeyboardHost == pc \in {"mapper", "keyboard"}

\* The ghosts of the keyboard are kept under SpecKeyboard only.
Tracking == pc = "keyboard"

comboGhosts == <<triggered, threw, lastCall, observed>>

bufferGhosts == <<recentInputs, bufferCall, bufferBefore, bufferHung>>

\* new InputMapper(...) with the collaborators in `given` and bufferSize size.
Construct(given, size) ==
    /\ MapperHost
    /\ ~mapperBuilt
    /\ IF ConstructorThrows(given)
       THEN /\ mapperCall' = MapperCall("constructor", "", given, <<>>, ConstructorError, <<>>, <<>>)
            /\ UNCHANGED <<mapperBuilt, currentContext, combos, activeSequences,
                           buffer, bufferSize, bufferDuration>>
       ELSE /\ mapperCall' = MapperCall("constructor", "", given, <<>>, NoError, <<>>, <<>>)
            /\ mapperBuilt' = TRUE
            /\ currentContext' = "default"
            /\ combos' = <<>>
            /\ activeSequences' = EmptyMap
            /\ buffer' = <<>>
            /\ bufferSize' = size
            /\ bufferDuration' = DefaultBufferDuration
    /\ UNCHANGED <<comboGhosts, bufferGhosts, now, runVars, mappingVars, deviceVars>>

\* mappingManager.loadMappings(JSON.stringify(mappings))
MapperLoadMappings(document) ==
    /\ MapperHost
    /\ LET r == loadMappings(mappings, document)
       IN  mappings' = r.mappings /\ mappingError' = r.error
    /\ mappingCall' = MappingCall("loadMappings", document, NullMapping, "", "")
    /\ mappingsBefore' = mappings
    /\ contextMappings' = <<>>
    /\ mapperCall' = NoMapperCall
    /\ refreshed' = FALSE
    /\ UNCHANGED <<mapperBuilt, currentContext>>
    /\ UNCHANGED <<comboVars, now, runVars, bufferVars, keyboardVars, mouseButtons,
                   connectedGamepads, gamepads, touches>>

\* inputMapper.addCombo(combo): this.comboSystem.addCombo(combo)
MapperAddCombo(combo) ==
    /\ pc = "mapper"
    /\ mapperBuilt
    /\ Len(combos) < MapperMaxCombos
    /\ combos' = addCombo(combos, combo)
    /\ mapperCall' = MapperCall("addCombo", currentContext, {}, <<>>, NoError, <<>>, <<>>)
    /\ UNCHANGED <<mapperBuilt, currentContext>>
    /\ UNCHANGED <<activeSequences, comboGhosts, now, runVars, bufferVars,
                   mappingVars, deviceVars>>

\* setContext(contextId): this.currentContext = contextId
SetContext(contextId) ==
    /\ MapperHost
    /\ mapperBuilt
    /\ currentContext' = setContext(contextId)
    /\ mapperCall' = MapperCall("setContext", contextId, {}, <<>>, NoError, <<>>, <<>>)
    /\ refreshed' = FALSE
    /\ UNCHANGED mapperBuilt
    /\ UNCHANGED <<comboVars, now, runVars, bufferVars, mappingVars, keyboardVars,
                   mouseButtons, connectedGamepads, gamepads, touches>>

\* mapInput()
MapInput ==
    /\ MapperHost
    /\ mapperBuilt
    /\ LET dev == Devices(pressedKeys, mouseButtons, connectedGamepads, gamepads, touches)
           r == mapInput(mappings, currentContext, dev, combos, activeSequences,
                         buffer, bufferSize, now)
       IN  /\ buffer' = r.buffer
           /\ activeSequences' = r.active
           /\ mapperCall' = MapperCall("mapInput", currentContext, {}, r.actions,
                                       IF r.threw THEN "TypeError" ELSE NoError,
                                       r.offered, buffer)
    /\ tapped' = {}
    /\ refreshed' = FALSE
    /\ UNCHANGED <<mapperBuilt, currentContext, combos, comboGhosts, bufferSize,
                   bufferDuration, bufferGhosts, now, runVars, mappingVars>>
    /\ UNCHANGED <<pressedKeys, isInitialized, keyListeners, lastKeyEvent,
                   mouseButtons, connectedGamepads, gamepads, touches>>

\* update(): the update() of the four sources; only GamepadSource's does
\* anything (pollGamepads), hardware being what navigator.getGamepads() reports.
MapperUpdate(hardware) ==
    /\ MapperHost
    /\ mapperBuilt
    /\ gamepads' = pollGamepads(connectedGamepads, gamepads, hardware)
    /\ mapperCall' = MapperCall("update", currentContext, {}, <<>>, NoError, <<>>, <<>>)
    /\ refreshed' = Tracking
    /\ UNCHANGED <<mapperBuilt, currentContext>>
    /\ UNCHANGED <<comboVars, now, runVars, bufferVars, mappingVars, keyboardVars,
                   mouseButtons, connectedGamepads, touches>>

\* What a device event leaves alone.
hostVars == <<comboVars, now, runVars, bufferVars, mappingVars, mapperBuilt, currentContext>>

\* keyboardSource.initialize()
KeyboardInitialize ==
    /\ KeyboardHost
    /\ IF ~isInitialized
       THEN /\ keyListeners' = keyListeners \cup {"keydown", "keyup"}
            /\ isInitialized' = TRUE
       ELSE UNCHANGED <<keyListeners, isInitialized>>
    /\ lastKeyEvent' = IF isInitialized THEN lastKeyEvent
                       ELSE [k \in Keys |-> IF lastKeyEvent[k] = "keydown"
                                            THEN "stale" ELSE "none"]
    /\ mapperCall' = NoMapperCall
    /\ refreshed' = FALSE
    /\ UNCHANGED <<pressedKeys, tapped, mouseButtons, connectedGamepads, gamepads, touches>>
    /\ UNCHANGED hostVars

\* dispose() that leaves pressedKeys alone, as in an earlier KeyboardSource.
disposeKeepingKeys(pressed) == pressed

\* dispose(): this.pressedKeys.clear()
disposeKeys(pressed) == {}

\* keyboardSource.dispose()
KeyboardDispose ==
    /\ pc = "keyboard"
    /\ IF isInitialized
       THEN /\ keyListeners' = keyListeners \ {"keydown", "keyup"}
            /\ isInitialized' = FALSE
            /\ pressedKeys' = disposeKeys(pressedKeys)
            /\ tapped' = {}
       ELSE UNCHANGED <<keyListeners, isInitialized, pressedKeys, tapped>>
    /\ UNCHANGED lastKeyEvent
    /\ mapperCall' = NoMapperCall
    /\ refreshed' = FALSE
    /\ UNCHANGED <<mouseButtons, connectedGamepads, gamepads, touches>>
    /\ UNCHANGED hostVars

\* A keydown event for the key: window calls handleKeyDown if it is registered.
KeyDown(code) ==
    /\ KeyboardHost
    /\ "keydown" \in keyListeners
    /\ pressedKeys' = handleKeyDown(pressedKeys, code)
    /\ lastKeyEvent' = IF Tracking THEN [lastKeyEvent EXCEPT ![code] = "keydown"]
                                   ELSE lastKeyEvent
    /\ tapped' = tapped \ {code}
    /\ mapperCall' = NoMapperCall
    /\ refreshed' = FALSE
    /\ UNCHANGED <<isInitialized, keyListeners, mouseButtons, connectedGamepads,
                   gamepads, touches>>
    /\ UNCHANGED hostVars

\* A keyup event for the key: window calls handleKeyUp if it is registered.
KeyUp(code) ==
    /\ KeyboardHost
    /\ "keyup" \in keyListeners
    /\ pressedKeys' = handleKeyUp(pressedKeys, code)
    /\ lastKeyEvent' = IF Tracking THEN [lastKeyEvent EXCEPT ![code] = "keyup"]
                                   ELSE lastKeyEvent
    /\ tapped' = IF Tracking /\ lastKeyEvent[code] = "keydown"
                 THEN tapped \cup {code} ELSE tapped
    /\ mapperCall' = NoMapperCall
    /\ refreshed' = FALSE
    /\ UNCHANGED <<isInitialized, keyListeners, mouseButtons, connectedGamepads,
                   gamepads, touches>>
    /\ UNCHANGED hostVars

\* A mousedown (down = TRUE) or mouseup event for the button:
\* this.buttons[event.button] = down, for the buttons 0, 1 and 2.
MouseButton(button, down) ==
    /\ pc = "devices"
    /\ mouseButtons' = IF down THEN mouseButtons \cup {button} ELSE mouseButtons \ {button}
    /\ mapperCall' = NoMapperCall
    /\ UNCHANGED <<keyboardVars, refreshed, connectedGamepads, gamepads, touches>>
    /\ UNCHANGED hostVars

\* A gamepadconnected event
GamepadConnected(index) ==
    /\ pc = "devices"
    /\ connectedGamepads' = handleGamepadConnected(connectedGamepads, index)
    /\ mapperCall' = NoMapperCall
    /\ UNCHANGED <<keyboardVars, refreshed, mouseButtons, gamepads, touches>>
    /\ UNCHANGED hostVars

\* A gamepaddisconnected event
GamepadDisconnected(index) ==
    /\ pc = "devices"
    /\ LET r == handleGamepadDisconnected(connectedGamepads, gamepads, index)
       IN  connectedGamepads' = r.connected /\ gamepads' = r.gamepads
    /\ mapperCall' = NoMapperCall
    /\ UNCHANGED <<keyboardVars, refreshed, mouseButtons, touches>>
    /\ UNCHANGED hostVars

\* A touchstart, touchend or touchcancel event that leaves count touches:
\* this.touches = Array.from(event.touches)
TouchEvent(count) ==
    /\ pc = "devices"
    /\ touches' = count
    /\ mapperCall' = NoMapperCall
    /\ UNCHANGED <<keyboardVars, refreshed, mouseButtons, connectedGamepads, gamepads>>
    /\ UNCHANGED hostVars

\* What navigator.getGamepads() can report.
Hardware == [GamepadIndices -> SUBSET Buttons]

NextMapper ==
    \/ \E given \in SUBSET Collaborators, size \in MapperCapacities : Construct(given, size)
    \/ \E document \in MapperDocuments : MapperLoadMappings(document)
    \/ \E combo \in MapperCombos : MapperAddCombo(combo)
    \/ \E contextId \in MapperContexts : SetContext(contextId)
    \/ MapInput
    \/ \E hardware \in Hardware : MapperUpdate(hardware)
    \/ KeyboardInitialize
    \/ \E code \in Keys : KeyDown(code)
    \/ \E code \in Keys : KeyUp(code)

SpecMapper == InitMapper /\ [][NextMapper]_vars

----------------------------------------------------------------------------
(* SpecDevices: the same host with mouse, gamepad and touch mappings *)

InitDevices ==
    /\ combos = <<>>
    /\ activeSequences = EmptyMap
    /\ now = 0
    /\ triggered = <<>>
    /\ threw = FALSE
    /\ lastCall = NoCall
    /\ observed = <<>>
    /\ pc = "devices"
    /\ target = ComboDefinition("c1", <<>>, 0)
    /\ kind = Exact
    /\ script = <<>>
    /\ results = <<>>
    /\ BufferInit
    /\ MappingInit
    /\ DeviceInit
    /\ MapperInit

NextDevices ==
    \/ \E given \in SUBSET Collaborators, size \in MapperCapacities : Construct(given, size)
    \/ \E document \in MapperDocuments : MapperLoadMappings(document)
    \/ \E contextId \in MapperContexts : SetContext(contextId)
    \/ MapInput
    \/ \E hardware \in Hardware : MapperUpdate(hardware)
    \/ \E button \in Buttons, down \in BOOLEAN : MouseButton(button, down)
    \/ \E index \in GamepadIndices : GamepadConnected(index)
    \/ \E index \in GamepadIndices : GamepadDisconnected(index)
    \/ \E count \in 0..1 : TouchEvent(count)

SpecDevices == InitDevices /\ [][NextDevices]_vars

----------------------------------------------------------------------------
(* SpecKeyboard: a host that initializes and disposes the KeyboardSource
   while keys go down and up, and calls update() and mapInput() *)

InitKeyboard ==
    /\ combos = <<>>
    /\ activeSequences = EmptyMap
    /\ now = 0
    /\ triggered = <<>>
    /\ threw = FALSE
    /\ lastCall = NoCall
    /\ observed = <<>>
    /\ pc = "keyboard"
    /\ target = ComboDefinition("c1", <<>>, 0)
    /\ kind = Exact
    /\ script = <<>>
    /\ results = <<>>
    /\ BufferInit
    /\ MappingInit
    /\ DeviceInit
    /\ MapperInit

NextKeyboard ==
    \/ \E given \in SUBSET Collaborators, size \in MapperCapacities : Construct(given, size)
    \/ \E document \in MapperDocuments : MapperLoadMappings(document)
    \/ \E contextId \in MapperContexts : SetContext(contextId)
    \/ MapInput
    \/ \E hardware \in Hardware : MapperUpdate(hardware)
    \/ KeyboardInitialize
    \/ KeyboardDispose
    \/ \E code \in Keys : KeyDown(code)
    \/ \E code \in Keys : KeyUp(code)

SpecKeyboard == InitKeyboard /\ [][NextKeyboard]_vars

----------------------------------------------------------------------------
(* Runs: what the calls of a script reported *)

Range(f) == {f[i] : i \in DOMAIN f}

\* The number of times id occurs in the list ids.
Occurrences(ids, id) == Cardinality({i \in DOMAIN ids : ids[i] = id})

\* The number of times id was reported by calls from..to of the script.
RECURSIVE Reported(_, _, _)
Reported(id, from, to) ==
    IF from > to THEN 0
    ELSE Occurrences(results[from].triggered, id) + Reported(id, from + 1, to)

\* Calls from..to were made, the first and the last at most (more than)
\* target's window apart.
RunWithin(from, to) ==
    /\ from <= to
    /\ Len(results) >= to
    /\ results[to].time - results[from].time <= target.maxTimeWindow

RunBeyond(from, to) ==
    /\ from <= to
    /\ Len(results) >= to
    /\ results[to].time - results[from].time > target.maxTimeWindow

\* Calls from..to reported target's id once, in call `to`.
ReportedOnceAtEnd(from, to) ==
    /\ Reported(target.id, from, to) = 1
    /\ Occurrences(results[to].triggered, target.id) = 1

StepsOfTarget == Len(target.sequence)

\* Every registered definition has two steps or more.
NoOneStepCombo == \A i \in 1..Len(combos) : Len(combos[i].sequence) >= 2

\* C1: the steps of D, observed in order from an idle matcher within
\* maxTimeWindow, report D's id exactly once, in the call of the last step
\* (for every D, one-step definitions included).
C1_ExactRunReportsOnce ==
    (pc = "done" /\ kind = Exact /\ RunWithin(1, StepsOfTarget))
        => ReportedOnceAtEnd(1, StepsOfTarget)

\* C1, for definitions of two steps or more (what the code does).
C1_ExactRunReportsOnceTwoSteps ==
    (pc = "done" /\ kind = Exact /\ NoOneStepCombo /\ RunWithin(1, StepsOfTarget))
        => ReportedOnceAtEnd(1, StepsOfTarget)

\* C2: the steps of D with one step replaced by a different input report
\* nothing for D, and the steps of D observed right afterwards, within the
\* window, report D's id exactly once.
C2_WrongStepThenCorrectRun ==
    (pc = "done" /\ kind.name = "subst"
        /\ RunWithin(StepsOfTarget + 1, 2 * StepsOfTarget))
        => /\ Reported(target.id, 1, StepsOfTarget) = 0
           /\ ReportedOnceAtEnd(StepsOfTarget + 1, 2 * StepsOfTarget)

\* C2, first half alone: the run with the wrong step reports nothing for D.
C2_WrongRunReportsNothing ==
    (kind.name = "subst" /\ Len(results) >= StepsOfTarget)
        => Reported(target.id, 1, StepsOfTarget) = 0

\* C4: when every step of D is observed in order and the call of the last
\* step comes more than maxTimeWindow after the call of the first, no call of
\* the run reports D's id.
C4_LateRunReportsNothing ==
    /\ (kind \in {Exact, Twice} /\ RunBeyond(1, StepsOfTarget))
          => Reported(target.id, 1, StepsOfTarget) = 0
    /\ (kind = Twice /\ RunBeyond(StepsOfTarget + 1, 2 * StepsOfTarget))
          => Reported(target.id, StepsOfTarget + 1, 2 * StepsOfTarget) = 0

\* C4's case: a three-step definition with a window of 5, steps observed at
\* times 0, 2 and 6, nothing thrown.
C4_Witness ==
    /\ pc = "done" /\ kind = Exact
    /\ target = ComboDefinition("c2", <<KeyA, KeyB, MouseA>>, 5)
    /\ results[1].time = 0 /\ results[2].time = 2 /\ results[3].time = 6
    /\ \A i \in 1..3 : ~results[i].threw

\* C5: two full runs of D, one after the other and each within its own
\* window, report D's id exactly twice, once at the end of each run.
C5_TwoRunsReportTwice ==
    (pc = "done" /\ kind = Twice
        /\ RunWithin(1, StepsOfTarget)
        /\ RunWithin(StepsOfTarget + 1, 2 * StepsOfTarget))
        => /\ ReportedOnceAtEnd(1, StepsOfTarget)
           /\ ReportedOnceAtEnd(StepsOfTarget + 1, 2 * StepsOfTarget)

\* C5, for definitions of two steps or more (what the code does).
C5_TwoRunsReportTwiceTwoSteps ==
    (pc = "done" /\ kind = Twice /\ NoOneStepCombo
        /\ RunWithin(1, StepsOfTarget)
        /\ RunWithin(StepsOfTarget + 1, 2 * StepsOfTarget))
        => /\ ReportedOnceAtEnd(1, StepsOfTarget)
           /\ ReportedOnceAtEnd(StepsOfTarget + 1, 2 * StepsOfTarget)

----------------------------------------------------------------------------
(* Any interleaving of calls: what checkCombos reports and what it keeps *)

RegisteredIds == {combos[i].id : i \in 1..Len(combos)}

\* The last Len(steps) inputs observed are exactly steps, in order.
LastObservedAre(steps) ==
    /\ Len(observed) >= Len(steps)
    /\ SubSeq(observed, Len(observed) - Len(steps) + 1, Len(observed)) = steps

\* C3: checkCombos reports the id of a definition D of k steps only if the k
\* most recent inputs passed to checkCombos, the current one included, are
\* D's steps in order.
C3_ReportsOnlyAfterAllSteps ==
    lastCall.op = "checkCombos" =>
        \A n \in 1..Len(triggered) :
            \E i \in 1..Len(combos) :
                /\ combos[i].id = triggered[n]
                /\ LastObservedAre(combos[i].sequence)

\* C6: once removeCombo(id) has returned there is no active sequence for
\* id, and every active sequence belongs to a registered definition.
C6_RemoveDropsActiveSequence ==
    /\ lastCall.op = "removeCombo" => ~MapHas(activeSequences, lastCall.comboId)
    /\ DOMAIN activeSequences \subseteq RegisteredIds

\* C7: a definition registered by addCombo starts idle, also when a
\* definition of the same id was removed earlier while partially matched:
\* right after addCombo(def) registers the only definition of def.id, there
\* is no active sequence for def.id.
C7_AddedDefinitionStartsIdle ==
    (/\ lastCall.op = "addCombo"
     /\ Cardinality({i \in 1..Len(combos) : combos[i].id = lastCall.comboId}) = 1)
        => ~MapHas(activeSequences, lastCall.comboId)

\* C8: at most one registered definition has any given id.
C8_OneDefinitionPerId ==
    \A i, j \in 1..Len(combos) : combos[i].id = combos[j].id => i = j

\* C9: the list one checkCombos call returns holds each id at most once, and
\* its ids are in the order in which their definitions were registered.
C9_ReportedIdsDistinctInOrder ==
    lastCall.op = "checkCombos" =>
        \A m, n \in 1..Len(triggered) :
            m < n => /\ triggered[m] # triggered[n]
                     /\ FindCombo(combos, triggered[m]) < FindCombo(combos, triggered[n])

\* C10: addCombo with an empty sequence or with maxTimeWindow <= 0 is
\* rejected: it leaves the registered definitions and the active sequences
\* as they were.
C10_InvalidDefinitionRejected ==
    [][\A combo \in Catalogue :
          (~ValidDefinition(combo) /\ AddCombo(combo))
              => UNCHANGED <<combos, activeSequences>>]_vars

\* The largest window of a definition of comboId that addCombo is called with.
LargestWindow(comboId) ==
    CHOOSE w \in {c.maxTimeWindow : c \in {d \in Catalogue : d.id = comboId}} :
        \A c \in Catalogue : c.id = comboId => c.maxTimeWindow <= w

\* C11: when a checkCombos call made at time now returns, every active
\* sequence it leaves is within the window of its definition:
\* now - startTime <= maxTimeWindow, whatever the input was.
C11_NoExpiredSequenceAfterCheck ==
    [][((\E input \in Inputs : CheckCombos(input)) /\ ~threw') =>
          \A comboId \in DOMAIN activeSequences' :
              now' - activeSequences'[comboId].startTime <= LargestWindow(comboId)]_vars

\* C11, for the ids that are registered when the call returns (what the
\* code does): the window is that of the first definition of the id.
C11_NoExpiredRegisteredSequenceAfterCheck ==
    [][((\E input \in Inputs : CheckCombos(input)) /\ ~threw') =>
          \A comboId \in DOMAIN activeSequences' \cap RegisteredIds :
              now' - activeSequences'[comboId].startTime
                  <= combos[FindCombo(combos, comboId)].maxTimeWindow]_vars

----------------------------------------------------------------------------
(* InputBuffer: what it holds and what getRecentInputs returns *)

Min(a, b) == IF a <= b THEN a ELSE b

\* The newest n entries of s, in their order.
Newest(n, s) == SubSeq(s, Len(s) - n + 1, Len(s))

\* The entry the last addInput call pushed.
Pushed == TimestampedInput(bufferCall.input, bufferCall.time)

\* The ids of the entries of buf at most w old at time t, oldest first.
RECURSIVE IdsWithin(_, _, _)
IdsWithin(buf, w, t) ==
    IF buf = <<>> THEN <<>>
    ELSE (IF t - Head(buf).timestamp <= w THEN <<Head(buf).input>> ELSE <<>>)
            \o IdsWithin(Tail(buf), w, t)

\* C12: with a capacity >= 0 the buffer holds at most bufferSize entries
\* whenever a call has returned.
C12_BufferWithinCapacity ==
    bufferSize >= 0 => Len(buffer) <= bufferSize

\* C12's case: addInput on a buffer that was full.
C12_Witness ==
    /\ bufferCall.op = "addInput"
    /\ bufferSize = MaxCapacity
    /\ Len(bufferBefore) = bufferSize
    /\ Len(buffer) = bufferSize

C15_EvictionRemovesOldest ==
    /\ (bufferCall.op = "addInput" /\ bufferCall.size >= 1)
          => buffer = Newest(Min(bufferCall.size, Len(bufferBefore) + 1),
                             Append(bufferBefore, Pushed))
    /\ (bufferCall.op = "setBufferSize" /\ bufferCall.size >= 0)
          => buffer = Newest(Min(bufferCall.size, Len(bufferBefore)), bufferBefore)

\* C15's case: setBufferSize(1) on two different entries kept the newer one.
C15_Witness ==
    /\ bufferCall.op = "setBufferSize" /\ bufferCall.size = 1
    /\ Len(bufferBefore) = 2
    /\ bufferBefore[1] # bufferBefore[2]
    /\ buffer = <<bufferBefore[2]>>

----------------------------------------------------------------------------
(* MappingConfigManager: what load, add, remove and the lookup do *)

\* A binding the table has to accept: context and action are non-empty
\* strings, the device type is one of the four, the code is a string or a
\* number, the modifiers are absent or a list.
AcceptableBinding(mapping) ==
    /\ ~mapping.null
    /\ mapping.contextId.type = "string" /\ mapping.contextId.value # ""
    /\ mapping.actionId.type = "string" /\ mapping.actionId.value # ""
    /\ mapping.inputType \in {Str("keyboard"), Str("mouse"), Str("gamepad"), Str("touch")}
    /\ mapping.inputCode.type \in {"string", "number"}
    /\ mapping.modifiers.type \in {"undefined", "array"}

\* A binding C17 names: empty context or action, unknown device type, or a
\* code that is neither a string nor a number.
NamedInvalid(mapping) ==
    \/ mapping.contextId = Str("")
    \/ mapping.actionId = Str("")
    \/ mapping.inputType \notin {Str("keyboard"), Str("mouse"), Str("gamepad"), Str("touch")}
    \/ mapping.inputCode.type \notin {"string", "number"}

\* The bindings handed to the last load or add call.
Given ==
    IF mappingCall.op = "addMapping" THEN {mappingCall.mapping}
    ELSE IF mappingCall.op = "loadMappings" THEN Range(mappingCall.document.items)
    ELSE {}

AllAcceptable(document) ==
    /\ document.wellFormed /\ document.isArray
    /\ \A i \in 1..Len(document.items) : AcceptableBinding(document.items[i])

AllPassValidation(document) ==
    /\ document.wellFormed /\ document.isArray
    /\ \A i \in 1..Len(document.items) :
          ~document.items[i].null /\ ValidMapping(document.items[i])

\* The entries of table other than those of the action and context, in order.
RECURSIVE Without(_, _, _)
Without(table, actionId, contextId) ==
    IF table = <<>> THEN <<>>
    ELSE (IF Head(table).actionId.value = actionId /\ Head(table).contextId.value = contextId
          THEN <<>> ELSE <<Head(table)>>) \o Without(Tail(table), actionId, contextId)

\* The entries of table of the context, in order.
RECURSIVE OfContext(_, _)
OfContext(table, contextId) ==
    IF table = <<>> THEN <<>>
    ELSE (IF Head(table).contextId.value = contextId THEN <<Head(table)>> ELSE <<>>)
            \o OfContext(Tail(table), contextId)

\* C16: loadMappings replaces or rejects as a whole: when every binding is
\* acceptable the table is exactly the given bindings in the given order;
\* otherwise (an unacceptable binding, or a text that does not parse to a
\* list) the call throws and the table is as it was.
C16_LoadReplacesOrRejects ==
    mappingCall.op = "loadMappings" =>
        IF AllAcceptable(mappingCall.document)
        THEN mappingError = NoError /\ mappings = mappingCall.document.items
        ELSE mappingError # NoError /\ mappings = mappingsBefore

\* C16, relative to the validation the code applies (typeof tests only):
\* the table is replaced as a whole or left as it was.
C16_LoadReplacesOrRejectsByValidation ==
    mappingCall.op = "loadMappings" =>
        IF AllPassValidation(mappingCall.document)
        THEN mappingError = NoError /\ mappings = mappingCall.document.items
        ELSE mappingError # NoError /\ mappings = mappingsBefore

\* C17: a load or add call given a binding with an empty context or action,
\* an unknown device type, or a code that is neither string nor number throws.
C17_InvalidBindingRejected ==
    (\E mapping \in Given : NamedInvalid(mapping)) => mappingError # NoError

\* C17, without the empty strings: a binding with an unknown device type or a
\* code that is neither string nor number is rejected.
C17_BadTypeOrCodeRejected ==
    (\E mapping \in Given :
        \/ mapping.inputType \notin {Str("keyboard"), Str("mouse"), Str("gamepad"), Str("touch")}
        \/ mapping.inputCode.type \notin {"string", "number"})
      => mappingError # NoError

\* C18: addMapping with an acceptable binding appends it (so it comes after
\* every binding of its context) and changes nothing else; with any other
\* binding it throws and leaves the table as it was.
C18_AddAppendsOrRejects ==
    mappingCall.op = "addMapping" =>
        IF AcceptableBinding(mappingCall.mapping)
        THEN mappingError = NoError /\ mappings = Append(mappingsBefore, mappingCall.mapping)
        ELSE mappingError # NoError /\ mappings = mappingsBefore

\* C18, relative to the validation the code applies.
C18_AddAppendsOrRejectsByValidation ==
    mappingCall.op = "addMapping" =>
        IF ~mappingCall.mapping.null /\ ValidMapping(mappingCall.mapping)
        THEN mappingError = NoError /\ mappings = Append(mappingsBefore, mappingCall.mapping)
        ELSE mappingError # NoError /\ mappings = mappingsBefore

\* C19: removeMapping(action, context) deletes exactly the bindings whose
\* action and context both match, keeps the others in their order, never
\* throws, and leaves the table as it was when nothing matches.
C19_RemoveDeletesExactlyMatching ==
    mappingCall.op = "removeMapping" =>
        /\ mappingError = NoError
        /\ mappings = Without(mappingsBefore, mappingCall.actionId, mappingCall.contextId)
        /\ (\A i \in 1..Len(mappingsBefore) :
                ~(/\ mappingsBefore[i].actionId = Str(mappingCall.actionId)
                  /\ mappingsBefore[i].contextId = Str(mappingCall.contextId)))
              => mappings = mappingsBefore

\* C19's case: two of three bindings removed, the one of the same action in
\* another context kept.
C19_Witness ==
    /\ mappingCall.op = "removeMapping"
    /\ Len(mappingsBefore) = 3
    /\ mappings = <<mappingsBefore[2]>>
    /\ mappings[1].actionId = Str(mappingCall.actionId)
    /\ mappings[1].contextId # Str(mappingCall.contextId)

\* C20: getMappingsForContext(context) returns exactly the bindings of the
\* context in table order, the empty list when there is none, and leaves the
\* table as it was.
C20_LookupReturnsContextInOrder ==
    mappingCall.op = "getMappingsForContext" =>
        /\ contextMappings = OfContext(mappings, mappingCall.contextId)
        /\ (\A i \in 1..Len(mappings) : mappings[i].contextId # Str(mappingCall.contextId))
              => contextMappings = <<>>
        /\ mappings = mappingsBefore
        /\ mappingError = NoError

\* C20's case: the first and third of three bindings returned, the second
\* being of another context.
C20_Witness ==
    /\ mappingCall.op = "getMappingsForContext"
    /\ Len(mappings) = 3
    /\ mappings[1] # mappings[3]
    /\ mappings[2].contextId # Str(mappingCall.contextId)
    /\ contextMappings = <<mappings[1], mappings[3]>>

----------------------------------------------------------------------------
(* InputMapper: what mapInput returns, offers and buffers *)

\* The sources as they are now.
CurrentDevices ==
    Devices(pressedKeys, mouseButtons, connectedGamepads, gamepads, touches)

\* The bindings among ms that the sources report as active, in order.
RECURSIVE ActiveAmong(_)
ActiveAmong(ms) ==
    IF ms = <<>> THEN <<>>
    ELSE (IF getInputState(Head(ms), CurrentDevices) THEN <<Head(ms)>> ELSE <<>>)
            \o ActiveAmong(Tail(ms))

\* The active bindings of the context the last call ran in.
ActiveBindings == ActiveAmong(OfContext(mappings, mapperCall.context))

EventsOf(ms) == [i \in 1..Len(ms) |-> ComboInputOf(ms[i])]

ActionsOf(ms) == [i \in 1..Len(ms) |-> ms[i].actionId.value]

IsPrefix(s, t) == Len(s) <= Len(t) /\ s = SubSeq(t, 1, Len(s))

\* ids without the ids of sequence definitions.
RECURSIVE WithoutComboIds(_)
WithoutComboIds(ids) ==
    IF ids = <<>> THEN <<>>
    ELSE (IF Head(ids) \in ComboIds THEN <<>> ELSE <<Head(ids)>>)
            \o WithoutComboIds(Tail(ids))

\* C21: while the current context is c1, a binding of another context c2
\* contributes nothing to mapInput, whatever the devices report: the events
\* offered to checkCombos and the actions returned are those of the active
\* bindings of c1 only (all of them when the call returns, the first of them
\* when it throws), and every id buffered is one of the ids returned; the
\* context is the one last set by setContext.
C21_OnlyCurrentContextContributes ==
    mapperCall.op = "mapInput" =>
        /\ mapperCall.context = currentContext
        /\ IsPrefix(mapperCall.offered, EventsOf(ActiveBindings))
        /\ IsPrefix(WithoutComboIds(mapperCall.actions), ActionsOf(ActiveBindings))
        /\ mapperCall.error = NoError =>
              /\ mapperCall.offered = EventsOf(ActiveBindings)
              /\ WithoutComboIds(mapperCall.actions) = ActionsOf(ActiveBindings)
        /\ Range(InputsOf(buffer)) \subseteq
              Range(InputsOf(mapperCall.before)) \union Range(mapperCall.actions)

\* C21's case: after setContext("menu"), KeyA is held; it is bound to jump
\* in "default" and to fire in "menu", and mapInput returns fire alone.
C21_Witness ==
    /\ mapperCall.op = "mapInput"
    /\ mapperCall.context = "menu"
    /\ mappings = KeyboardMappings
    /\ pressedKeys = {"KeyA"}
    /\ mapperCall.actions = <<"fire">>
    /\ mapperCall.offered = <<ComboInputOf(MenuFireKeyA)>>

\* C22: mapInput returns, for the bindings of the current context in table
\* order, each active binding's action followed by the ids of the sequences
\* its event completed; inactive bindings contribute nothing and duplicate
\* active bindings each contribute.
C22_ActionsThenCompletedSequences ==
    mapperCall.op = "mapInput" =>
        /\ mapperCall.error = NoError
        /\ WithoutComboIds(mapperCall.actions) = ActionsOf(ActiveBindings)
        /\ \A i \in 1..Len(combos) :
              (/\ Len(combos[i].sequence) = 1
               /\ combos[i].sequence[1] \in Range(mapperCall.offered))
                  => combos[i].id \in Range(mapperCall.actions)

\* C22 holds of the definitions of two or more steps: with no one-step
\* definition registered, mapInput returns and its list is the actions of
\* the active bindings in order, ids of definitions in between.
C22_ActionsThenCompletedSequencesTwoSteps ==
    (mapperCall.op = "mapInput" /\ \A i \in 1..Len(combos) : Len(combos[i].sequence) >= 2) =>
        /\ mapperCall.error = NoError
        /\ WithoutComboIds(mapperCall.actions) = ActionsOf(ActiveBindings)

\* C23: after a mapInput call that returns the list L, the buffer is its
\* previous contents followed by L, cut to the newest bufferSize entries,
\* each entry stamped with the time of the call.
C23_BufferIsPreviousThenReturned ==
    (mapperCall.op = "mapInput" /\ mapperCall.error = NoError) =>
        LET all == InputsOf(mapperCall.before) \o mapperCall.actions
        IN  /\ InputsOf(buffer) = Newest(Min(bufferSize, Len(all)), all)
            /\ \A i \in 1..Len(buffer) :
                  i > Len(buffer) - Len(mapperCall.actions) => buffer[i].timestamp = now

\* C23's case: a call that returns two actions and a completed sequence
\* into a buffer that held an entry and has room for two.
C23_Witness ==
    /\ mapperCall.op = "mapInput"
    /\ mapperCall.error = NoError
    /\ mapperCall.actions = <<"jump", "fire", "c1", "jump">>
    /\ mapperCall.before # <<>>
    /\ bufferSize = 2
    /\ InputsOf(buffer) = <<"c1", "jump">>

C25_SetContextChangesOnlyContext ==
    [][/\ (\E c \in MapperContexts : SetContext(c)) =>
              /\ currentContext' = mapperCall'.context
              /\ mapperCall'.error = NoError
              /\ UNCHANGED <<mappings, buffer, bufferSize, bufferDuration,
                             activeSequences, combos, mapperBuilt>>
       /\ (MapInput /\ OfContext(mappings, currentContext) = <<>>) =>
              /\ mapperCall'.actions = <<>>
              /\ mapperCall'.error = NoError
              /\ UNCHANGED <<buffer, activeSequences>>]_vars

\* C25's case: the context set to "pause", which has no mappings, while the
\* buffer holds an action and a sequence is under way.
C25_Witness ==
    /\ mapperCall.op = "setContext"
    /\ mapperCall.context = "pause"
    /\ currentContext = "pause"
    /\ mappings = KeyboardMappings
    /\ buffer # <<>>
    /\ activeSequences # EmptyMap

----------------------------------------------------------------------------
(* InputMapper: gamepad and touch mappings *)

\* The mappings of the context the last call ran in.
ContextBindings == OfContext(mappings, mapperCall.context)

\* The mappings of that context of the given inputType.
BindingsOfType(inputType) ==
    {b \in Range(ContextBindings) : b.inputType.value = inputType}

\* The last mapInput call took the mapping for active.
TakenForActive(b) == ComboInputOf(b) \in Range(mapperCall.offered)

\* Button n of the first gamepad that connected and is still connected is
\* pressed, as of the last update().
FirstGamepadPressed(n) ==
    /\ connectedGamepads # <<>>
    /\ MapHas(gamepads, connectedGamepads[1])
    /\ n \in gamepads[connectedGamepads[1]]

----------------------------------------------------------------------------
(* KeyboardSource: what it reports of the keys *)

\* The actions the current context binds to the key.
ActionsOfKey(k) ==
    {b.actionId.value : b \in {m \in Range(OfContext(mappings, currentContext)) :
                                  m.inputType.value = "keyboard" /\ CodeOf(m.inputCode) = k}}

\* C28: a key pressed and released since the last mapInput is still
\* reported: update() followed by mapInput() returns the actions the current
\* context binds to it.
C28_TapBetweenTicksReported ==
    [][(MapInput /\ refreshed) =>
          \A k \in tapped : ActionsOfKey(k) \subseteq Range(mapperCall'.actions)]_vars

\* C29: while the source is initialized, isKeyPressed(k) is true exactly
\* when the last event delivered for k was a keydown, whatever happened to
\* the other keys and however often update() ran.
C29_PressedIffLastEventKeyDown ==
    isInitialized =>
        \A k \in Keys : isKeyPressed(pressedKeys, k) <=> lastKeyEvent[k] = "keydown"

\* C29's case: after update(), KeyA was released and KeyB is held.
C29_Witness ==
    /\ isInitialized
    /\ refreshed
    /\ lastKeyEvent["KeyA"] = "keyup"
    /\ lastKeyEvent["KeyB"] = "keydown"
    /\ ~isKeyPressed(pressedKeys, "KeyA")
    /\ isKeyPressed(pressedKeys, "KeyB")

\* C30: the keydown and keyup listeners are registered exactly when the
\* source is initialized, no key is pressed while it is not, and a key that
\* was down at dispose is not reported before a new keydown.
C30_ListenersIffInitialized ==
    /\ keyListeners = IF isInitialized THEN {"keydown", "keyup"} ELSE {}
    /\ ~isInitialized => pressedKeys = {}
    /\ \A k \in Keys : isKeyPressed(pressedKeys, k) => lastKeyEvent[k] = "keydown"

\* C30's case: initialized again after a dispose with KeyA down; KeyA is not
\* reported, KeyB, pressed since, is.
C30_Witness ==
    /\ isInitialized
    /\ lastKeyEvent["KeyA"] = "stale"
    /\ lastKeyEvent["KeyB"] = "keydown"
    /\ pressedKeys = {"KeyB"}
    /\ keyListeners = {"keydown", "keyup"}

----------------------------------------------------------------------------
(* ComboSystem: one definition among the others *)

\* The registered definitions of the id, in order.
Alone(comboId) == SelectSeq(combos, LAMBDA combo : combo.id = comboId)

\* The active sequence of the id, if any.
ActiveOf(active, comboId) ==
    [x \in DOMAIN active \cap {comboId} |-> active[x]]

\* What the call does to the definitions of the id and reports of them is
\* what it would do and report with no other definition registered.
AsAlone(input) ==
    \A comboId \in RegisteredIds :
        LET alone == checkCombos(Alone(comboId), ActiveOf(activeSequences, comboId),
                                 input, now)
        IN  /\ ActiveOf(activeSequences', comboId) = alone.active
            /\ comboId \in Range(triggered') <=> comboId \in Range(alone.triggered)

\* C31: with pairwise distinct ids registered, what checkCombos does to the
\* active sequence of a definition D and whether it reports D depend on D,
\* the input and the time only; addCombo and removeCombo change no active
\* sequence.
C31_DefinitionsIndependent ==
    [][/\ \A input \in Inputs :
              (CheckCombos(input) /\ C8_OneDefinitionPerId) => AsAlone(input)
       /\ ((\E combo \in Catalogue : AddCombo(combo))
              \/ (\E comboId \in ComboIds : RemoveCombo(comboId)))
              => UNCHANGED activeSequences]_vars

\* C31 holds of the calls that return: with distinct ids a call that does not
\* throw treats each definition as if it were alone.
C31_DefinitionsIndependentUnlessThrown ==
    [][\A input \in Inputs :
          (CheckCombos(input) /\ C8_OneDefinitionPerId /\ ~threw') => AsAlone(input)]_vars

\* The number of steps of D matched so far.
MatchedSteps(D) ==
    IF MapHas(activeSequences, D.id) THEN Len(activeSequences[D.id].inputs) ELSE 0

\* C32: when the active sequence of D receives an input that is not D's
\* expected step, D has no active sequence after the call, even if the input
\* is D's first step.
C32_MismatchLeavesIdle ==
    [][\A input \in Inputs : CheckCombos(input) =>
          \A i \in 1..Len(combos) :
              (/\ MapHas(activeSequences, combos[i].id)
               /\ MatchedSteps(combos[i]) < Len(combos[i].sequence)
               /\ combos[i].sequence[MatchedSteps(combos[i]) + 1] # input)
                  => ~MapHas(activeSequences', combos[i].id)]_vars

\* C32 holds with distinct ids of the calls that return.
C32_MismatchLeavesIdleDistinctIds ==
    [][\A input \in Inputs : (CheckCombos(input) /\ C8_OneDefinitionPerId /\ ~threw') =>
          \A i \in 1..Len(combos) :
              (/\ MapHas(activeSequences, combos[i].id)
               /\ MatchedSteps(combos[i]) < Len(combos[i].sequence)
               /\ combos[i].sequence[MatchedSteps(combos[i]) + 1] # input)
                  => ~MapHas(activeSequences', combos[i].id)]_vars

\* The input is the last step of D, the steps before it being matched.
FinalStep(D, input) ==
    /\ Len(D.sequence) >= 1
    /\ MatchedSteps(D) = Len(D.sequence) - 1
    /\ D.sequence[Len(D.sequence)] = input

\* The sequence of D, if active, is older than D's window.
Expired(D) ==
    MapHas(activeSequences, D.id)
        /\ now - activeSequences[D.id].startTime > D.maxTimeWindow

\* C33: when the last step of D is matched D has no active sequence after
\* the call, whether or not the window has passed, and a run whose window
\* has passed is not reported.
C33_FinalStepConsumesSequence ==
    [][\A input \in Inputs : CheckCombos(input) =>
          \A i \in 1..Len(combos) :
              FinalStep(combos[i], input) =>
                  /\ ~MapHas(activeSequences', combos[i].id)
                  /\ Expired(combos[i]) => combos[i].id \notin Range(triggered')]_vars

\* C33 holds of the definitions of two steps or more with distinct ids, in
\* the calls that return.
C33_FinalStepConsumesSequenceTwoSteps ==
    [][\A input \in Inputs : (CheckCombos(input) /\ C8_OneDefinitionPerId /\ ~threw') =>
          \A i \in 1..Len(combos) :
              (FinalStep(combos[i], input) /\ Len(combos[i].sequence) >= 2) =>
                  /\ ~MapHas(activeSequences', combos[i].id)
                  /\ Expired(combos[i]) => combos[i].id \notin Range(triggered')]_vars

\* C34: the startTime of an active sequence never changes while the sequence
\* exists: over any step that keeps an active sequence for an id, its
\* startTime is the same before and after.
C34_StartTimeFixed ==
    [][\A comboId \in DOMAIN activeSequences \cap DOMAIN activeSequences' :
          activeSequences'[comboId].startTime = activeSequences[comboId].startTime]_vars

\* C34 holds while the registered ids are distinct.
C34_StartTimeFixedDistinctIds ==
    [][C8_OneDefinitionPerId =>
          \A comboId \in DOMAIN activeSequences \cap DOMAIN activeSequences' :
              activeSequences'[comboId].startTime = activeSequences[comboId].startTime]_vars

\* C36: between calls every active sequence of a registered definition D
\* holds at least one and fewer than Len(D.sequence) inputs, each the step of
\* D at its position.
C36_ActiveSequenceIsProperPrefix ==
    \A i \in 1..Len(combos) :
        MapHas(activeSequences, combos[i].id) =>
            LET inputs == activeSequences[combos[i].id].inputs
            IN  /\ 1 <= Len(inputs)
                /\ Len(inputs) < Len(combos[i].sequence)
                /\ \A n \in 1..Len(inputs) : inputs[n] = combos[i].sequence[n]

----------------------------------------------------------------------------
(* InputBuffer: bufferDuration, termination and order *)

Max(a, b) == IF a >= b THEN a ELSE b

\* C37: setBufferSize(n) returns for every integer n and leaves at most
\* max(n, 0) entries.
C37_SetBufferSizeTerminates ==
    bufferCall.op = "setBufferSize" =>
        /\ ~bufferHung
        /\ Len(buffer) <= Max(bufferCall.size, 0)

\* C37 holds of the sizes that are not negative.
C37_SetBufferSizeTerminatesFromZero ==
    (bufferCall.op = "setBufferSize" /\ bufferCall.size >= 0) =>
        /\ ~bufferHung
        /\ Len(buffer) <= bufferCall.size

IsSuffix(s, t) == Len(s) <= Len(t) /\ s = SubSeq(t, Len(t) - Len(s) + 1, Len(t))

\* C40: the entries are in the order of their timestamps, none of them in
\* the future, so that for windows w1 <= w2 getRecentInputs(w1) is a suffix
\* of getRecentInputs(w2), which is a suffix of getRecentInputs().
C40_RecentListsAreNestedSuffixes ==
    /\ \A i \in 1..Len(buffer) : buffer[i].timestamp <= now
    /\ \A i, j \in 1..Len(buffer) : i < j => buffer[i].timestamp <= buffer[j].timestamp
    /\ LET recent == [w \in Durations |->
                          getRecentInputs(buffer, Duration(w), now, bufferDuration)]
           all == getRecentInputs(buffer, NoDuration, now, bufferDuration)
       IN  \A w1, w2 \in Durations :
              w1 <= w2 => IsSuffix(recent[w1], recent[w2]) /\ IsSuffix(recent[w2], all)
    /\ bufferCall.op = "getRecentInputs" => IsSuffix(recentInputs, InputsOf(buffer))

\* C40's case: two different entries pushed at the times 0 and 1; at time 2
\* getRecentInputs(1) returned the newer one alone, getRecentInputs(0) is
\* empty and getRecentInputs() is both.
C40_Witness ==
    /\ bufferCall.op = "getRecentInputs"
    /\ bufferCall.duration = Duration(1)
    /\ now = 2
    /\ Len(buffer) = 2
    /\ buffer[1].timestamp = 0
    /\ buffer[2].timestamp = 1
    /\ buffer[1].input # buffer[2].input
    /\ recentInputs = <<buffer[2].input>>

----------------------------------------------------------------------------
(* InputMapper: what mapInput offers to checkCombos, tick after tick *)

\* The active bindings of the current context, in table order.
ActiveNow == ActiveAmong(OfContext(mappings, currentContext))

\* D has two steps or more, the second other than the first, and its active
\* sequence holds its first step.
StartedByFirstStep(D) ==
    /\ Len(D.sequence) >= 2
    /\ D.sequence[2] # D.sequence[1]
    /\ MapHas(activeSequences, D.id)
    /\ activeSequences[D.id].inputs = <<D.sequence[1]>>

\* C38: mapInput calls checkCombos once per active binding of the current
\* context, in table order, in every call in which the input is active; with
\* no active binding the active sequences are untouched; an input held over
\* two calls is offered twice, and the second offering of the first step of a
\* sequence whose second step differs aborts the sequence.
C38_EveryActiveBindingOfferedEveryTick ==
    [][MapInput =>
          /\ mapperCall'.offered = EventsOf(ActiveNow)
          /\ ActiveNow = <<>> => UNCHANGED activeSequences
          /\ \A i \in 1..Len(combos) :
                (/\ StartedByFirstStep(combos[i])
                 /\ EventsOf(ActiveNow) = <<combos[i].sequence[1]>>)
                    => ~MapHas(activeSequences', combos[i].id)]_vars

\* C38 holds with distinct ids of the calls that return.
C38_EveryActiveBindingOfferedUnlessThrown ==
    [][(MapInput /\ C8_OneDefinitionPerId /\ mapperCall'.error = NoError) =>
          /\ mapperCall'.offered = EventsOf(ActiveNow)
          /\ ActiveNow = <<>> => UNCHANGED activeSequences
          /\ \A i \in 1..Len(combos) :
                (/\ StartedByFirstStep(combos[i])
                 /\ EventsOf(ActiveNow) = <<combos[i].sequence[1]>>)
                    => ~MapHas(activeSequences', combos[i].id)]_vars

\* The steps of D are pairwise distinct.
DistinctSteps(D) ==
    \A m, n \in 1..Len(D.sequence) : D.sequence[m] = D.sequence[n] => m = n

\* The active bindings of the current context are one binding per step of D.
OneBindingPerStep(D) ==
    /\ Len(ActiveNow) = Len(D.sequence)
    /\ Range(EventsOf(ActiveNow)) = Range(D.sequence)

\* C39: from an idle ComboSystem, with one active binding per step of a
\* definition D of two or more distinct steps, a single mapInput call reports
\* D once when the bindings are in the table in the order of D's steps, and
\* does not report D when they are in another order.
C39_SingleCallReportsInTableOrder ==
    [][MapInput =>
          \A i \in 1..Len(combos) :
              (/\ activeSequences = EmptyMap
               /\ Len(combos[i].sequence) >= 2
               /\ DistinctSteps(combos[i])
               /\ OneBindingPerStep(combos[i]))
                  => Occurrences(mapperCall'.actions, combos[i].id)
                        = IF EventsOf(ActiveNow) = combos[i].sequence THEN 1 ELSE 0]_vars

\* C39 holds while the registered ids are distinct.
C39_SingleCallReportsInTableOrderDistinctIds ==
    [][(MapInput /\ C8_OneDefinitionPerId) =>
          \A i \in 1..Len(combos) :
              (/\ activeSequences = EmptyMap
               /\ Len(combos[i].sequence) >= 2
               /\ DistinctSteps(combos[i])
               /\ OneBindingPerStep(combos[i]))
                  => Occurrences(mapperCall'.actions, combos[i].id)
                        = IF EventsOf(ActiveNow) = combos[i].sequence THEN 1 ELSE 0]_vars

====
